---- MODULE Spec2Model ----
(***************************************************************************)
(* File Search ingestion: the Store Client (FileSearchClient, variant A =  *)
(* corpora API with per-file get/list/delete, variant B = fileSearchStores *)
(* API, variant L = the first corpora client, whose listFiles returns the  *)
(* array of one unpaginated response) and the Batch Uploader               *)
(* (FileSearchUploader).                                                   *)
(*                                                                         *)
(* Every await point of the TypeScript code is one action.  The clock      *)
(* `now` is Date.now() in milliseconds; a network call advances it by the  *)
(* latency of the call, a timer by its interval.                           *)
(***************************************************************************)
EXTENDS Integers, Sequences, FiniteSets, TLC

(***************************************************************************)
(* Program constants                                                       *)
(***************************************************************************)
\* const pollInterval = 2000
PollInterval == 2000

\* maxWaitMs: number = 60000
DefaultMaxWaitMs == 60000

\* await this.delay(500)
DelayMs == 500

(***************************************************************************)
(* Bounds of the model                                                     *)
(***************************************************************************)
\* longest batch handed to uploadDocuments / uploadDocumentsWithProgress
MaxDocs == 2

\* the remote service changes its answer to getFile during the first
\* MaxEventPolls polls of a wait only; afterwards it repeats its last answer
MaxEventPolls == 2

\* a listAll* call is followed for MaxPages list requests
MaxPages == 3

\* uploadDocument calls one caller makes in a row
MaxCalls == 2

\* files held by the store that clearCorpus clears
MaxFiles == 3

\* round-trip times of a request issued by a direct client call, in ms
Latencies == {0, 300}

\* maxWaitMs arguments of a direct waitForFileProcessing call
MaxWaitChoices == {-1, 0, 2500, DefaultMaxWaitMs}

Variants == {"A", "B", "L"}

\* variants whose client talks to the corpora API
CorporaVariants == {"A", "L"}

\* this.corpusId = corpusId || env.GOOGLE_CORPUS_ID || ''
CorpusIds == {"c1", ""}

\* fileId arguments of a direct client call
FileIds == {"f1", "f2"}

FileStates == {"STATE_UNSPECIFIED", "PROCESSING", "ACTIVE", "FAILED"}

\* server-supplied error.message of a FAILED file ("" : no error object)
ServerMessages == {"", "quota exceeded"}

\* continuation tokens ("" : nextPageToken absent from the response)
NoToken == ""

Tokens == {NoToken, "t1", "t2"}

\* the items one listing page can carry
PageItems == {<< >>, <<"x">>, <<"y", "z">>}

\* the files of the remote store as the listing service pages them: the first
\* `first` of n files on page one, the others on page two
StorePages(n, first) ==
  LET ids == [k \in 1..n |-> "f" \o ToString(k)]
  IN  IF n = 0 THEN << >>
      ELSE IF first = n THEN << ids >>
      ELSE << SubSeq(ids, 1, first), SubSeq(ids, first + 1, n) >>

StoreChoices ==
  { StorePages(p[1], p[2]) :
      p \in { q \in (0..MaxFiles) \X (0..MaxFiles) :
                \/ q[1] = 0 /\ q[2] = 0
                \/ q[1] >= 1 /\ q[2] \in 1..q[1] } }

\* documents handed to the uploader ("" : no fileName override)
DocChoices ==
  { [source |-> "github", type |-> "issue", id |-> "7", fileName |-> ""],
    [source |-> "github", type |-> "pr", id |-> "9", fileName |-> "notes.md"] }

RECURSIVE SeqsUpTo(_, _)
SeqsUpTo(S, n) ==
  IF n = 0 THEN { << >> }
  ELSE LET shorter == SeqsUpTo(S, n - 1)
       IN  shorter \cup { Append(s, x) : s \in { t \in shorter : Len(t) = n - 1 }, x \in S }

\* the document lists handed to a batch: every list of at most two documents,
\* and the longer lists that alternate between two different documents
DocLists ==
  { docs \in SeqsUpTo(DocChoices, MaxDocs) :
      \A k \in 3..Len(docs) : docs[k] = docs[k - 2] /\ docs[k] # docs[k - 1] }

(***************************************************************************)
(* Values                                                                  *)
(***************************************************************************)
Nothing == [kind |-> "undefined"]

\* new Error(message)
Err(message) == [kind |-> "Error", message |-> message]

\* a number returned to the caller
Count(n) == [kind |-> "number", value |-> n]

\* an HTTP response as the client reads it: response.status, response.text();
\* NoResponse: no response was received
Response(status, body) == [status |-> status, body |-> body]

NoResponse == Response(0, "")

RemoteFile(name, state, message) ==
  [kind |-> "file", name |-> name, state |-> state, hasError |-> message # "",
   message |-> message]

(***************************************************************************)
(* Pure functions of the code                                              *)
(***************************************************************************)
RECURSIVE Join(_)
Join(segments) ==
  IF Len(segments) = 0 THEN ""
  ELSE IF Len(segments) = 1 THEN segments[1]
  ELSE segments[1] \o "/" \o Join(Tail(segments))

\* the first path segment in place of the last
ExtractFileId_FirstSegment(segments) == segments[1]

\* resourceName.split('/').pop() || resourceName ; a resource name is kept as
\* the sequence of its '/'-separated segments
ExtractFileId(segments) ==
  IF segments[Len(segments)] # "" THEN segments[Len(segments)] ELSE Join(segments)

\* a generated name without the timestamp
GenerateFileName_NoTimestamp(document, timestamp) ==
  document.source \o "-" \o document.type \o "-" \o document.id \o ".md"

\* `${source}-${type}-${id}-${timestamp}.md` with timestamp = Date.now()
GenerateFileName(document, timestamp) ==
  document.source \o "-" \o document.type \o "-" \o document.id \o "-"
    \o ToString(timestamp) \o ".md"

\* document.fileName || this.generateFileName(document)
FileNameOf(document, timestamp) ==
  IF document.fileName # "" THEN document.fileName
  ELSE GenerateFileName(document, timestamp)

\* return { success: true, fileName, fileId }
SuccessResult(name, id) == [success |-> TRUE, fileName |-> name, fileId |-> id]

\* catch (error) { ... return { success: false, fileName, error: errorMessage } }
FailureResult(name, error) ==
  [success |-> FALSE, fileName |-> name, error |-> error.message]

\* results.unshift(result) in place of push
PushResult_Unshift(rs, r) == <<r>> \o rs

\* results.push(result)
PushResult(rs, r) == Append(rs, r)

\* results.length in place of the filtered length
SuccessCount_CountsAll(rs) == Len(rs)

\* results.filter(r => r.success).length
SuccessCount(rs) == Cardinality({ k \in 1..Len(rs) : rs[k].success })

\* results.filter(r => !r.success).length
FailureCount(rs) == Cardinality({ k \in 1..Len(rs) : ~rs[k].success })

\* return { totalDocuments: documents.length, successCount, failureCount, results, duration }
BatchUploadResult(docs, rs, duration) ==
  [kind |-> "batch", totalDocuments |-> Len(docs), successCount |-> SuccessCount(rs),
   failureCount |-> FailureCount(rs), results |-> rs, duration |-> duration]

\* a loop test that still holds when exactly maxWaitMs has elapsed
WithinWait_Inclusive(t, start, maxWait) == t - start <= maxWait

\* while (Date.now() - startTime < maxWaitMs)
WithinWait(t, start, maxWait) == t - start < maxWait

\* a poll that takes STATE_UNSPECIFIED for ready
PollOutcome_UnspecifiedIsReady(file) ==
  IF file.state \in {"ACTIVE", "STATE_UNSPECIFIED"} THEN "return"
  ELSE IF file.state = "FAILED" THEN "throw"
  ELSE "sleep"

\* what one poll does with the file it got: return it, throw, or sleep
PollOutcome(file) ==
  IF file.state = "ACTIVE" THEN "return"
  ELSE IF file.state = "FAILED" THEN "throw"
  ELSE "sleep"

\* const errorMsg = file.error?.message || 'Unknown error'
ProcessingError(file) ==
  Err("File processing failed: "
        \o (IF file.hasError /\ file.message # "" THEN file.message ELSE "Unknown error"))

TimeoutError(maxWait) == Err("File processing timeout after " \o ToString(maxWait) \o "ms")

UnsupportedError == Err("Individual file operations not supported in FileSearchStores API")

\* throw new Error(`Failed to upload file (${response.status}): ${error}`)
HttpError(what, status, body) ==
  Err("Failed to " \o what \o " (" \o ToString(status) \o "): " \o body)

\* throw new Error(`Failed to get file: ${error}`)
HttpErrorPlain(what, body) == Err("Failed to " \o what \o ": " \o body)

\* a rejected fetch (connection reset, DNS)
TransportError == [kind |-> "Error", message |-> "fetch failed"]

\* for (const file of files) over a value that is not iterable
NotIterableError == [kind |-> "TypeError", message |-> "files is not iterable"]

\* a loop that never asks for a second page
HasMore_FirstPageOnly(token) == FALSE

\* while (pageToken)
HasMore(token) == token # NoToken

\* a catch that lets a rejected fetch through
Catches_HttpOnly(error) == error.message # "fetch failed"

\* catch (error) { ... } of uploadDocument: which thrown values it catches
Catches(error) == TRUE

(***************************************************************************)
(* The remote service                                                      *)
(***************************************************************************)
\* RemoteFile.state machine: PROCESSING -> ACTIVE | FAILED, terminal states stay
Successors(state) ==
  CASE state = "STATE_UNSPECIFIED" -> FileStates
    [] state = "PROCESSING" -> {"PROCESSING", "ACTIVE", "FAILED"}
    [] OTHER -> {state}

\* The outcome of one client call: a returned value or a thrown error, the time
\* the call took, the fetch calls it made, and the remote file state after it.
Returned(value, latency, fetches, state, message) ==
  [throws |-> FALSE, value |-> value, error |-> Nothing, latency |-> latency,
   fetches |-> fetches, state |-> state, message |-> message,
   response |-> IF fetches = 0 THEN NoResponse ELSE Response(200, "")]

Thrown(error, latency, fetches, state, message) ==
  [throws |-> TRUE, value |-> Nothing, error |-> error, latency |-> latency,
   fetches |-> fetches, state |-> state, message |-> message, response |-> NoResponse]

\* the outcome o of a call whose fetch got the non-2xx response (status, body)
NotOk(o, status, body) == [o EXCEPT !.response = Response(status, body)]

FileName(corpus, id) == <<"corpora", corpus, "files", id>>

(***************************************************************************)
(* FileSearchClient                                                        *)
(***************************************************************************)
\* what the remote file can be when a request reaches the service: <<state, message>>
NextRemote(state, message, live) ==
  IF ~live \/ state \in {"ACTIVE", "FAILED"} THEN { <<state, message>> }
  ELSE { sm \in Successors(state) \X ServerMessages : sm[1] = "FAILED" \/ sm[2] = "" }

\* getFile, variant A: GET /corpora/{corpusId}/files/{fileId}
getFile_A(corpus, id, state, message, live, latencies) ==
  { Returned(RemoteFile(FileName(corpus, id), sm[1], sm[2]), l, 1, sm[1], sm[2]) :
      sm \in NextRemote(state, message, live), l \in latencies }
  \cup (IF live
        THEN { NotOk(Thrown(HttpErrorPlain("get file", "not found"), l, 1, state, message),
                     404, "not found") : l \in latencies }
             \cup { Thrown(TransportError, l, 1, state, message) : l \in latencies }
        ELSE {})

\* a variant B getFile that asks the service before it fails
getFile_B_Fetches(corpus, id, state, message, live, latencies) ==
  { Thrown(UnsupportedError, l, 1, state, message) : l \in latencies }

\* getFile, variant B: throw new Error('Individual file operations not supported ...')
getFile_B(corpus, id, state, message, live, latencies) ==
  { Thrown(UnsupportedError, 0, 0, state, message) }

getFile(v, corpus, id, state, message, live, latencies) ==
  IF v \in CorporaVariants THEN getFile_A(corpus, id, state, message, live, latencies)
  ELSE getFile_B(corpus, id, state, message, live, latencies)

\* deleteFile, variant A: DELETE /corpora/{corpusId}/files/{fileId}
deleteFile_A(corpus, id, state, message, latencies) ==
  { Returned(Nothing, l, 1, state, message) : l \in latencies }
  \cup { NotOk(Thrown(HttpErrorPlain("delete file", "not found"), l, 1, state, message),
                 404, "not found") : l \in latencies }
  \cup { Thrown(TransportError, l, 1, state, message) : l \in latencies }

\* deleteFile, variant B
deleteFile_B(corpus, id, state, message, latencies) ==
  { Thrown(UnsupportedError, 0, 0, state, message) }

deleteFile(v, corpus, id, state, message, latencies) ==
  IF v \in CorporaVariants THEN deleteFile_A(corpus, id, state, message, latencies)
  ELSE deleteFile_B(corpus, id, state, message, latencies)

\* what the service answers to a request for the store `corpus`: a request with
\* an empty store id addresses no store and is never accepted
Accepts(corpus) == corpus # ""

\* uploadFile, variant A: POST /corpora/{corpusId}/files (multipart)
uploadFile_A(corpus, displayName, id, latencies) ==
  { Returned(RemoteFile(FileName(corpus, id), "PROCESSING", ""), l, 1, "PROCESSING", "") :
      l \in (IF Accepts(corpus) THEN latencies ELSE {}) }
  \cup { NotOk(Thrown(HttpError("upload file", 500, "internal error"), l, 1, "PROCESSING", ""),
                 500, "internal error") : l \in latencies }
  \cup { Thrown(TransportError, l, 1, "PROCESSING", "") : l \in latencies }

\* uploadFile, variant L: throw new Error(`Failed to upload file: ${error}`)
uploadFile_L(corpus, displayName, id, latencies) ==
  { Returned(RemoteFile(FileName(corpus, id), "PROCESSING", ""), l, 1, "PROCESSING", "") :
      l \in (IF Accepts(corpus) THEN latencies ELSE {}) }
  \cup { NotOk(Thrown(HttpErrorPlain("upload file", "internal error"), l, 1, "PROCESSING", ""),
                 500, "internal error") : l \in latencies }
  \cup { Thrown(TransportError, l, 1, "PROCESSING", "") : l \in latencies }

\* uploadFile, variant B: POST {name}:uploadToFileSearchStore; the response is a
\* long-running operation and the returned file is a mock in state PROCESSING
uploadFile_B(corpus, displayName, id, latencies) ==
  { Returned(RemoteFile(<<"fileSearchStores", corpus, "upload", "operations", id>>,
                        "PROCESSING", ""), l, 1, st, "") :
      l \in (IF Accepts(corpus) THEN latencies ELSE {}), st \in {"PROCESSING", "FAILED"} }
  \cup { NotOk(Thrown(HttpError("upload file", 500, "internal error"), l, 1, "PROCESSING", ""),
                 500, "internal error") : l \in latencies }
  \cup { Thrown(TransportError, l, 1, "PROCESSING", "") : l \in latencies }

\* an uploader that refuses an empty store id without asking the service
uploadFile_RefusesEmptyStore(v, corpus, displayName, id, latencies) ==
  IF corpus = "" THEN { Thrown(Err("store id missing"), 0, 0, "PROCESSING", "") }
  ELSE IF v = "A" THEN uploadFile_A(corpus, displayName, id, latencies)
  ELSE IF v = "L" THEN uploadFile_L(corpus, displayName, id, latencies)
  ELSE uploadFile_B(corpus, displayName, id, latencies)

\* /tmp before any upload: files written, unlinkSync calls made, files
\* present, 'Failed to delete temporary file' warnings logged
NoTempFiles == [writes |-> 0, unlinks |-> 0, present |-> 0, warnings |-> 0]

\* an upload whose clean-up follows the request inside the try block, without finally
WithTempFile_NoFinally(o, unlinkOk, t) ==
  [outcome |-> o,
   tmp |-> [writes |-> t.writes + 1,
            unlinks |-> t.unlinks + (IF o.throws THEN 0 ELSE 1),
            present |-> t.present + (IF ~o.throws /\ unlinkOk THEN 0 ELSE 1),
            warnings |-> t.warnings + (IF ~o.throws /\ ~unlinkOk THEN 1 ELSE 0)]]

\* uploadFile, variant B, around its request with outcome o:
\* fs.writeFileSync(tmpFilePath, buffer) ; try { request } finally {
\*   try { fs.unlinkSync(tmpFilePath) } catch { logger.warn(...) } }
\* unlinkOk: unlinkSync did not throw
WithTempFile(o, unlinkOk, t) ==
  [outcome |-> o,
   tmp |-> [writes |-> t.writes + 1,
            unlinks |-> t.unlinks + 1,
            present |-> t.present + (IF unlinkOk THEN 0 ELSE 1),
            warnings |-> t.warnings + (IF unlinkOk THEN 0 ELSE 1)]]

\* variants A and L send the content in the request body and write no file
WithoutTempFile(o, t) == [outcome |-> o, tmp |-> t]

\* unlinkSync can fail only where a file was written
UnlinkResults(v) == IF v = "B" THEN BOOLEAN ELSE {TRUE}

\* one uploadFile call of the client of variant v: the request's outcome o
\* and what the call leaves under /tmp
uploadFileEnds(v, o, unlinkOk, t) ==
  IF v = "B" THEN WithTempFile(o, unlinkOk, t) ELSE WithoutTempFile(o, t)

uploadFile(v, corpus, displayName, id, latencies) ==
  IF v = "A" THEN uploadFile_A(corpus, displayName, id, latencies)
  ELSE IF v = "L" THEN uploadFile_L(corpus, displayName, id, latencies)
  ELSE uploadFile_B(corpus, displayName, id, latencies)

\* a mock file that is still PROCESSING
waitForFileProcessing_B_StillProcessing(id) == RemoteFile(<<id>>, "PROCESSING", "")

\* waitForFileProcessing, variant B: no poll, a mock file in state ACTIVE
waitForFileProcessing_B(id) == RemoteFile(<<id>>, "ACTIVE", "")

\* the !response.ok branch of a list request: listCorpora of variant A throws
\* `Failed to list corpora: ${error}`, the others put response.status in
ListError(what, status, body) ==
  IF what = "list corpora" THEN HttpErrorPlain(what, body) ELSE HttpError(what, status, body)

\* listCorpora / listFiles (variant A): one page, { items, nextPageToken? };
\* nothing makes the service leave the token out of any page
listPage(what, token, latencies) ==
  { Returned([kind |-> "page", items |-> items, nextPageToken |-> next], l, 1,
             "PROCESSING", "") :
      items \in PageItems, next \in Tokens, l \in latencies }
  \cup { NotOk(Thrown(ListError(what, 500, "internal error"), l, 1, "PROCESSING", ""),
                 500, "internal error") : l \in latencies }

\* return allCorpora / return files: an array
ListResult(items) == [kind |-> "list", items |-> items]

\* the FileSearchFile records of the files ids
FilesOf(corpus, ids) == [k \in 1..Len(ids) |-> RemoteFile(FileName(corpus, ids[k]), "ACTIVE", "")]

\* data.files || [] of the response to GET /corpora/{corpusId}/files
FirstPage(corpus, store) == IF store = << >> THEN << >> ELSE FilesOf(corpus, store[1])

\* listFiles, variant A: return { files, nextPageToken: data.nextPageToken }
listFiles_A(corpus, store, latencies) ==
  { Returned([kind |-> "page", items |-> FirstPage(corpus, store),
              nextPageToken |-> IF Len(store) > 1 THEN "t1" ELSE NoToken],
             l, 1, "PROCESSING", "") : l \in latencies }
  \cup { NotOk(Thrown(HttpError("list files", 500, "internal error"), l, 1, "PROCESSING", ""),
                 500, "internal error") : l \in latencies }

\* listFiles, variant L: return files
listFiles_L(corpus, store, latencies) ==
  { Returned(ListResult(FirstPage(corpus, store)), l, 1, "PROCESSING", "") : l \in latencies }
  \cup { NotOk(Thrown(HttpErrorPlain("list files", "internal error"), l, 1, "PROCESSING", ""),
                 500, "internal error") : l \in latencies }

\* listFiles, variant B: return { files: [] }
listFiles_B(corpus, store, latencies) ==
  { Returned([kind |-> "page", items |-> << >>, nextPageToken |-> NoToken], 0, 0,
             "PROCESSING", "") }

listFiles(v, corpus, store, latencies) ==
  IF v = "A" THEN listFiles_A(corpus, store, latencies)
  ELSE IF v = "L" THEN listFiles_L(corpus, store, latencies)
  ELSE listFiles_B(corpus, store, latencies)

\* the non-2xx responses a corpus request can get: <<status, body>>
HttpFailures == { <<400, "bad request">>, <<404, "not found">>, <<500, "internal error">> }

Corpus(id) == [kind |-> "corpus", name |-> <<"corpora", id>>]

\* createCorpus / getCorpus / listCorpora: the corpora clients (A, L) throw
\* `Failed to ${what}: ${error}`, variant B `Failed to ${what} (${response.status}): ${error}`
corpusRequest(v, what, value, latencies) ==
  { Returned(value, l, 1, "PROCESSING", "") : l \in latencies }
  \cup { NotOk(Thrown(IF v = "B" THEN HttpError(what, f[1], f[2]) ELSE HttpErrorPlain(what, f[2]),
                        l, 1, "PROCESSING", ""), f[1], f[2]) :
           f \in HttpFailures, l \in latencies }
  \cup { Thrown(TransportError, l, 1, "PROCESSING", "") : l \in latencies }

createCorpus(v, latencies) ==
  corpusRequest(v, IF v = "B" THEN "create File Search Store" ELSE "create corpus",
                Corpus("new"), latencies)

getCorpus(v, id, latencies) ==
  corpusRequest(v, IF v = "B" THEN "get File Search Store" ELSE "get corpus",
                Corpus(id), latencies)

listCorpora(v, latencies) ==
  corpusRequest(v, IF v = "B" THEN "list File Search Stores" ELSE "list corpora",
                [kind |-> "page", items |-> <<"x">>, nextPageToken |-> NoToken], latencies)

(***************************************************************************)
(* State                                                                   *)
(***************************************************************************)
VARIABLES
  variant,       \* which FileSearchClient the uploader holds
  corpusId,      \* this.corpusId
  warned,        \* the constructor logged 'GOOGLE_CORPUS_ID not set - uploads will fail'
  tmp,           \* the temporary files of uploadFile under /tmp
  now,           \* Date.now()
  fetchCount,    \* number of fetch() calls made so far
  op,            \* the operation the caller invoked
  pc,            \* where that operation stands
  retval,        \* the value it returned
  thrown,        \* the error it threw to its caller
  documents,     \* uploadDocuments: documents
  onProgress,    \* uploadDocumentsWithProgress: is a callback given
  batchStart,    \* uploadDocuments: startTime
  idx,           \* index (1-based) of the document being uploaded
  results,       \* uploadDocuments: results
  progress,      \* the calls onProgress received
  delays,        \* number of delay(500) calls completed
  docStart,      \* time at which uploadDocument was entered
  fileName,      \* uploadDocument: fileName
  fileId,        \* uploadDocument: fileId / waitForFileProcessing: fileId
  result,        \* the UploadResult uploadDocument returned
  attempts,      \* history: what the client did for each document
  startTime,     \* waitForFileProcessing: startTime
  maxWaitMs,     \* waitForFileProcessing: maxWaitMs
  getFileCalls,  \* getFile calls made by the current waitForFileProcessing
  observed,      \* the file the last poll got
  polledAt,      \* elapsed time at which the last poll was issued
  observedAt,    \* elapsed time at which the last poll got its answer
  sleptMs,       \* time slept since the last poll
  fileState,     \* remote: state of the file
  fileMessage,   \* remote: error.message of the file
  response,      \* the HTTP response the last fetch got
  requestLog,    \* history: the uploadFile and getFile calls made on the client,
                 \* a run of identical calls kept as one entry with their number
  pageToken,     \* listAll*: pageToken
  all,           \* listAll*: allCorpora / allFiles
  requests,      \* history: the page tokens sent
  pages,         \* history: the pages received
  store,         \* remote: the files of the store, as the service pages them
  files,         \* clearCorpus: files
  deletedCount,  \* clearCorpus: deletedCount
  deleteLog      \* history: the deleteFile calls clearCorpus made

configVars == <<variant, corpusId, warned>>

envVars == <<configVars, tmp>>

callVars == <<op, pc, retval, thrown>>

batchVars == <<documents, onProgress, batchStart, idx, results, progress, delays>>

docVars == <<docStart, fileName, fileId, result, attempts>>

waitVars ==
  <<startTime, maxWaitMs, getFileCalls, observed, polledAt, observedAt, sleptMs>>

remoteVars == <<fileState, fileMessage, response, requestLog>>

clearVars == <<store, files, deletedCount, deleteLog>>

listVars == <<pageToken, all, requests, pages, clearVars>>

vars ==
  <<envVars, now, fetchCount, callVars, batchVars, docVars, waitVars, remoteVars, listVars>>

BatchOps == {"uploadDocuments", "uploadDocumentsWithProgress"}

UploadOps == BatchOps \cup {"uploadDocument"}

\* requests of a timed direct client call take a round trip; the uploader's
\* operations are modelled with immediate answers
RequestLatencies == IF op \in UploadOps \cup {"clearCorpus"} THEN {0} ELSE Latencies

\* the answers the service gives to the uploader's operations, out of the
\* outcomes of a client call: there a request fails in one way, uploadFile by a
\* 500 response, getFile by a rejected fetch, and a file that fails processing
\* has an error message
Answers(kind, outcomes) ==
  IF op \notin UploadOps THEN outcomes
  ELSE IF kind = "uploadFile" THEN { o \in outcomes : o.error # TransportError }
  ELSE { o \in outcomes : /\ o.response.status # 404
                           /\ o.state = "FAILED" => o.message # "" }

\* new FileSearchUploader(corpusId, client)
Init ==
  /\ variant \in Variants
  /\ corpusId \in CorpusIds
  /\ warned = (corpusId = "")
  /\ tmp = NoTempFiles
  /\ now = 0
  /\ fetchCount = 0
  /\ op = "none"
  /\ pc = "idle"
  /\ retval = Nothing
  /\ thrown = Nothing
  /\ documents = << >>
  /\ onProgress = FALSE
  /\ batchStart = 0
  /\ idx = 0
  /\ results = << >>
  /\ progress = << >>
  /\ delays = 0
  /\ docStart = 0
  /\ fileName = ""
  /\ fileId = ""
  /\ result = Nothing
  /\ attempts = << >>
  /\ startTime = 0
  /\ maxWaitMs = 0
  /\ getFileCalls = 0
  /\ observed = Nothing
  /\ polledAt = 0
  /\ observedAt = 0
  /\ sleptMs = 0
  /\ fileState = "PROCESSING"
  /\ fileMessage = ""
  /\ response = NoResponse
  /\ requestLog = << >>
  /\ store = << >>
  /\ files = Nothing
  /\ deletedCount = 0
  /\ deleteLog = << >>
  /\ pageToken = NoToken
  /\ all = << >>
  /\ requests = << >>
  /\ pages = << >>

(***************************************************************************)
(* FileSearchUploader.uploadDocument                                       *)
(***************************************************************************)
\* const fileName = document.fileName || this.generateFileName(document)
EnterUploadDocument(k, docs, t) ==
  /\ idx' = k
  /\ docStart' = t
  /\ fileName' = FileNameOf(docs[k], t)
  /\ fileId' = ""
  /\ pc' = "uploadFile"

\* uploadDocument returns r to its caller
DocCompletes(r, up, pr, e) ==
  /\ result' = r
  /\ attempts' = Append(attempts, [doc |-> idx, at |-> docStart, uploaded |-> up,
                                   processed |-> pr, error |-> e, endedAt |-> now'])
  /\ IF op = "uploadDocument"
     THEN pc' = "done" /\ retval' = r
     ELSE pc' = "push" /\ retval' = retval
  /\ thrown' = thrown

\* an uploader that calls uploadFile again when it failed
DocThrows_RetriesUpload(e, up) ==
  IF ~up
  THEN pc' = "uploadFile" /\ UNCHANGED <<retval, thrown, result, attempts>>
  ELSE DocCompletes(FailureResult(fileName, e), up, FALSE, e)

\* an error is raised inside the try block of uploadDocument
DocThrows(e, up) ==
  IF Catches(e)
  THEN DocCompletes(FailureResult(fileName, e), up, FALSE, e)
  ELSE /\ pc' = "done"
       /\ thrown' = e
       /\ attempts' = Append(attempts, [doc |-> idx, at |-> docStart, uploaded |-> up,
                                        processed |-> FALSE, error |-> e,
                                        endedAt |-> now'])
       /\ UNCHANGED <<retval, result>>

\* waitForFileProcessing returns file
WaitReturns(file) ==
  IF op = "waitForFileProcessing"
  THEN pc' = "done" /\ retval' = file /\ UNCHANGED <<thrown, result, attempts>>
  ELSE DocCompletes(SuccessResult(fileName, fileId), TRUE, TRUE, Nothing)

\* waitForFileProcessing throws e
WaitThrows(e) ==
  IF op = "waitForFileProcessing"
  THEN pc' = "done" /\ thrown' = e /\ UNCHANGED <<retval, result, attempts>>
  ELSE DocThrows(e, TRUE)

\* one entry of requestLog: the call made on the client and how it ended
LogEntry(kind, arg, document, o) ==
  [kind |-> kind, call |-> Len(attempts) + 1, storeId |-> corpusId, arg |-> arg,
   document |-> document, ok |-> ~o.throws, error |-> o.error, fetches |-> o.fetches,
   name |-> IF o.throws \/ kind # "uploadFile" THEN << >> ELSE o.value.name,
   times |-> 1]

\* the log with one more call: a call identical to the last one is counted there
Logged(log, entry) ==
  IF log # << >> /\ [log[Len(log)] EXCEPT !.times = 1] = entry
  THEN [log EXCEPT ![Len(log)].times = @ + 1]
  ELSE Append(log, entry)

\* caller: uploader.uploadDocument(document), and again for the same document
\* once it has returned
uploadDocument ==
  /\ \/ pc = "idle"
     \/ op = "uploadDocument" /\ pc = "done" /\ Len(attempts) < MaxCalls
  /\ \E doc \in (IF pc = "idle" THEN DocChoices ELSE {documents[1]}) :
       /\ documents' = <<doc>>
       /\ EnterUploadDocument(1, <<doc>>, now)
  /\ op' = "uploadDocument"
  /\ UNCHANGED <<envVars, now, fetchCount, retval, thrown, onProgress, batchStart, results,
                 progress, delays, result, attempts, waitVars, remoteVars, listVars>>

\* const file = await this.client.uploadFile(this.corpusId, document.content, {...})
\* const fileId = this.extractFileId(file.name)
UploadFileStep ==
  /\ pc = "uploadFile"
  /\ \E rq \in Answers("uploadFile",
                       uploadFile(variant, corpusId, fileName,
                                  "f" \o ToString(Len(attempts) + 1), RequestLatencies)),
        unlinkOk \in UnlinkResults(variant) :
       LET ended == uploadFileEnds(variant, rq, unlinkOk, tmp)
           o == ended.outcome
       IN
       /\ tmp' = ended.tmp
       /\ now' = now + o.latency
       /\ fetchCount' = fetchCount + o.fetches
       /\ fileState' = o.state
       /\ fileMessage' = o.message
       /\ response' = o.response
       /\ requestLog' = Logged(requestLog, LogEntry("uploadFile", fileName, documents[idx], o))
       /\ IF o.throws
          THEN DocThrows(o.error, FALSE) /\ UNCHANGED <<fileId, maxWaitMs>>
          ELSE /\ fileId' = ExtractFileId(o.value.name)
               /\ maxWaitMs' = DefaultMaxWaitMs
               /\ pc' = "wait"
               /\ UNCHANGED <<retval, thrown, result, attempts>>
  /\ UNCHANGED <<configVars, op, batchVars, docStart, fileName, startTime, getFileCalls,
                 observed, polledAt, observedAt, sleptMs, listVars>>

(***************************************************************************)
(* FileSearchClient.waitForFileProcessing                                  *)
(***************************************************************************)
\* caller: client.waitForFileProcessing(corpusId, fileId, maxWaitMs)
waitForFileProcessing ==
  /\ pc = "idle"
  /\ op' = "waitForFileProcessing"
  /\ pc' = "wait"
  /\ fileId' \in FileIds
  /\ maxWaitMs' \in MaxWaitChoices
  /\ \E sm \in FileStates \X ServerMessages :
       /\ sm[1] = "FAILED" \/ sm[2] = ""
       /\ fileState' = sm[1]
       /\ fileMessage' = sm[2]
  /\ UNCHANGED <<response, requestLog>>
  /\ UNCHANGED <<envVars, now, fetchCount, retval, thrown, batchVars, docStart, fileName,
                 result, attempts, startTime, getFileCalls, observed, polledAt, observedAt,
                 sleptMs, listVars>>

\* a loop that tests the time before the sleep and so polls once more after it
LoopTest_PollsAfterLastSleep(t, start) ==
  IF WithinWait(t, start, maxWaitMs + PollInterval) /\ maxWaitMs > 0
  THEN pc' = "getFile" /\ UNCHANGED <<retval, thrown, result, attempts>>
  ELSE WaitThrows(TimeoutError(maxWaitMs))

\* while (Date.now() - startTime < maxWaitMs) ... throw new Error(`File processing timeout ...`)
\* the loop test, taken at time t of a wait started at time start: the next
\* getFile request, or the timeout
LoopTest(t, start) ==
  IF WithinWait(t, start, maxWaitMs)
  THEN pc' = "getFile" /\ UNCHANGED <<retval, thrown, result, attempts>>
  ELSE WaitThrows(TimeoutError(maxWaitMs))

\* variant A: const startTime = Date.now() and the first loop test ;
\* variant B: return the mock file
WaitEnter ==
  /\ pc = "wait"
  /\ UNCHANGED <<envVars, now, fetchCount, op, batchVars, docStart, fileName, fileId,
                 maxWaitMs, remoteVars, listVars>>
  /\ IF variant \in CorporaVariants
     THEN /\ startTime' = now
          /\ getFileCalls' = 0
          /\ observed' = Nothing
          /\ polledAt' = 0
          /\ observedAt' = 0
          /\ sleptMs' = 0
          /\ LoopTest(now, now)
     ELSE /\ WaitReturns(waitForFileProcessing_B(fileId))
          /\ UNCHANGED <<startTime, getFileCalls, observed, polledAt, observedAt, sleptMs>>

\* a loop that passes the two identifiers in the wrong order
PollRequest_ArgumentsSwapped(corpus, id) == [kind |-> "getFile", storeId |-> id, arg |-> corpus]

\* the one request of the loop body: this.getFile(corpusId, fileId)
PollRequest(corpus, id) == [kind |-> "getFile", storeId |-> corpus, arg |-> id]

\* const file = await this.getFile(corpusId, fileId) and the two tests on file.state
Poll ==
  /\ pc = "getFile"
  /\ \E o \in Answers("getFile",
                      getFile(variant, PollRequest(corpusId, fileId).storeId,
                              PollRequest(corpusId, fileId).arg, fileState, fileMessage,
                              getFileCalls < MaxEventPolls, RequestLatencies)) :
       /\ now' = now + o.latency
       /\ fetchCount' = fetchCount + o.fetches
       /\ fileState' = o.state
       /\ fileMessage' = o.message
       /\ response' = o.response
       /\ requestLog' = Logged(requestLog,
                               [LogEntry(PollRequest(corpusId, fileId).kind,
                                         PollRequest(corpusId, fileId).arg, Nothing, o)
                                  EXCEPT !.storeId = PollRequest(corpusId, fileId).storeId])
       /\ IF o.throws
          THEN WaitThrows(o.error) /\ UNCHANGED <<observed, observedAt>>
          ELSE /\ observed' = o.value
               /\ observedAt' = now' - startTime
               /\ CASE PollOutcome(o.value) = "return" -> WaitReturns(o.value)
                    [] PollOutcome(o.value) = "throw" -> WaitThrows(ProcessingError(o.value))
                    [] OTHER -> pc' = "sleep" /\ UNCHANGED <<retval, thrown, result, attempts>>
  /\ getFileCalls' = getFileCalls + 1
  /\ polledAt' = now - startTime
  /\ sleptMs' = 0
  /\ UNCHANGED <<envVars, op, batchVars, docStart, fileName, fileId, startTime, maxWaitMs,
                 listVars>>

\* what the remote file can become while the loop sleeps until time t. A
\* poll that follows the sleep draws the file's state itself, so the change
\* is kept only for the sleep that no poll follows, in a direct call.
DuringSleep(t) ==
  IF op = "waitForFileProcessing" /\ ~WithinWait(t, startTime, maxWaitMs)
  THEN NextRemote(fileState, fileMessage, TRUE)
  ELSE { <<fileState, fileMessage>> }

\* await new Promise(resolve => setTimeout(resolve, pollInterval)), then the loop test
Sleep ==
  /\ pc = "sleep"
  /\ now' = now + PollInterval
  /\ sleptMs' = sleptMs + PollInterval
  /\ \E sm \in DuringSleep(now') : fileState' = sm[1] /\ fileMessage' = sm[2]
  /\ LoopTest(now', startTime)
  /\ UNCHANGED <<envVars, fetchCount, op, batchVars, docStart, fileName, fileId, startTime,
                 maxWaitMs, getFileCalls, observed, polledAt, observedAt, response,
                 requestLog, listVars>>

(***************************************************************************)
(* FileSearchUploader.uploadDocuments / uploadDocumentsWithProgress        *)
(***************************************************************************)
\* a duration reported in whole seconds
BatchDuration_InSeconds(start, t) == (t - start) \div 1000

\* const duration = Date.now() - startTime, in milliseconds, read at time t
BatchDuration(start, t) == t - start

\* a loop that breaks at the first failed document
LoopNext_StopsOnFailure(k, docs, rs, start, t) ==
  IF k <= Len(docs) /\ (rs = << >> \/ rs[Len(rs)].success)
  THEN EnterUploadDocument(k, docs, t) /\ UNCHANGED retval
  ELSE /\ retval' = BatchUploadResult(docs, rs, t - start)
       /\ pc' = "done"
       /\ idx' = k
       /\ UNCHANGED <<docStart, fileName, fileId>>

\* the loop test, taken at time t with the results rs: the next document, or the return
LoopNext(k, docs, rs, start, t) ==
  IF k <= Len(docs)
  THEN EnterUploadDocument(k, docs, t) /\ UNCHANGED retval
  ELSE /\ retval' = BatchUploadResult(docs, rs, BatchDuration(start, t))
       /\ pc' = "done"
       /\ idx' = k
       /\ UNCHANGED <<docStart, fileName, fileId>>

\* caller: uploader.uploadDocuments(documents)
uploadDocuments ==
  /\ pc = "idle"
  /\ op' = "uploadDocuments"
  /\ \E docs \in DocLists :
       /\ documents' = docs
       /\ LoopNext(1, docs, << >>, now, now)
  /\ batchStart' = now
  /\ results' = << >>
  /\ UNCHANGED <<envVars, now, fetchCount, thrown, onProgress, progress, delays, result,
                 attempts, waitVars, remoteVars, listVars>>

\* caller: uploader.uploadDocumentsWithProgress(documents, onProgress)
uploadDocumentsWithProgress ==
  /\ pc = "idle"
  /\ op' = "uploadDocumentsWithProgress"
  /\ \E docs \in DocLists :
       /\ documents' = docs
       /\ LoopNext(1, docs, << >>, now, now)
  /\ onProgress' \in BOOLEAN
  /\ batchStart' = now
  /\ results' = << >>
  /\ UNCHANGED <<envVars, now, fetchCount, thrown, progress, delays, result, attempts,
                 waitVars, remoteVars, listVars>>

\* a callback that is handed the 0-based index
ProgressArgs_ZeroBased(k, docs, r) == [current |-> k - 1, total |-> Len(docs), result |-> r]

\* onProgress(i + 1, documents.length, result), for the k-th document (k = i + 1)
ProgressArgs(k, docs, r) == [current |-> k, total |-> Len(docs), result |-> r]

\* a progress loop that goes on to the next document without the delay when a
\* callback was called
Push_NoDelayAfterCallback ==
  /\ pc = "push"
  /\ results' = PushResult(results, result)
  /\ IF op = "uploadDocumentsWithProgress" /\ onProgress
     THEN /\ progress' = Append(progress, [args |-> ProgressArgs(idx, documents, result),
                                           at |-> now, attempts |-> Len(attempts),
                                           delays |-> delays, threw |-> FALSE])
          /\ LoopNext(idx + 1, documents, results', batchStart, now)
          /\ UNCHANGED <<thrown, result, attempts>>
     ELSE /\ pc' = "delay"
          /\ UNCHANGED <<thrown, progress, idx, retval, docVars>>
  /\ UNCHANGED <<envVars, now, fetchCount, op, documents, onProgress, batchStart, delays,
                 waitVars, remoteVars, listVars>>

\* a loop that wraps the callback in a try/catch and goes on
AfterCallback_Caught(threw) == [pc |-> "delay", thrown |-> Nothing]

\* what follows the onProgress call, which is inside no try block: the delay
\* when the callback returned, the end of the operation with the callback's
\* exception when it threw
AfterCallback(threw) ==
  IF threw THEN [pc |-> "done", thrown |-> Err("onProgress failed")]
  ELSE [pc |-> "delay", thrown |-> Nothing]

\* results.push(result) ; if (onProgress) onProgress(i + 1, documents.length, result)
Push ==
  /\ pc = "push"
  /\ results' = PushResult(results, result)
  /\ IF op = "uploadDocumentsWithProgress" /\ onProgress
     THEN \E threw \in BOOLEAN :
            /\ progress' = Append(progress, [args |-> ProgressArgs(idx, documents, result),
                                             at |-> now, attempts |-> Len(attempts),
                                             delays |-> delays, threw |-> threw])
            /\ pc' = AfterCallback(threw).pc
            /\ thrown' = AfterCallback(threw).thrown
     ELSE pc' = "delay" /\ UNCHANGED <<thrown, progress>>
  /\ UNCHANGED <<envVars, now, fetchCount, op, retval, documents, onProgress, batchStart,
                 idx, delays, docVars, waitVars, remoteVars, listVars>>

\* a delay that is not awaited
AfterDelay_NotAwaited(t, ms) == t

\* delay(ms): new Promise(resolve => setTimeout(resolve, ms)), awaited from time t
AfterDelay(t, ms) == t + ms

\* a delay that backs off after a failed attempt
DelayAfter_BacksOffOnFailure(r) == IF r.success THEN DelayMs ELSE 2 * DelayMs

\* the argument of this.delay(...) after the attempt that gave r: always 500
DelayAfter(r) == DelayMs

\* await this.delay(500), then the loop test
Delay ==
  /\ pc = "delay"
  /\ now' = AfterDelay(now, DelayAfter(result))
  /\ delays' = delays + 1
  /\ LoopNext(idx + 1, documents, results, batchStart, now')
  /\ UNCHANGED <<envVars, fetchCount, op, thrown, documents, onProgress, batchStart,
                 results, progress, result, attempts, waitVars, remoteVars, listVars>>

(***************************************************************************)
(* FileSearchClient.getFile / deleteFile, called directly                  *)
(***************************************************************************)
\* the call ends with outcome o
CallEnds(name, id, o) ==
  /\ op' = name
  /\ pc' = "done"
  /\ retval' = o.value
  /\ thrown' = o.error
  /\ now' = now + o.latency
  /\ fetchCount' = fetchCount + o.fetches
  /\ fileState' = o.state
  /\ fileMessage' = o.message
  /\ response' = o.response
  /\ fileId' = id
  /\ UNCHANGED <<configVars, batchVars, docStart, fileName, result, attempts, waitVars,
                 listVars, requestLog>>

\* a call that writes no file ends with outcome o
DirectCall(name, id, o) == CallEnds(name, id, o) /\ UNCHANGED tmp

\* caller: client.getFile(corpusId, fileId)
getFileCall ==
  /\ pc = "idle"
  /\ \E id \in FileIds, sm \in FileStates \X ServerMessages :
       /\ sm[1] = "FAILED" \/ sm[2] = ""
       /\ \E o \in getFile(variant, corpusId, id, sm[1], sm[2], TRUE, Latencies) :
            DirectCall("getFile", id, o)

\* caller: client.deleteFile(corpusId, fileId)
deleteFileCall ==
  /\ pc = "idle"
  /\ \E id \in FileIds :
       \E o \in deleteFile(variant, corpusId, id, "ACTIVE", "", Latencies) :
         DirectCall("deleteFile", id, o)

\* caller: client.createCorpus(displayName)
createCorpusCall ==
  /\ pc = "idle"
  /\ \E o \in createCorpus(variant, Latencies) : DirectCall("createCorpus", fileId, o)

\* caller: client.getCorpus(corpusId)
getCorpusCall ==
  /\ pc = "idle"
  /\ \E o \in getCorpus(variant, corpusId, Latencies) : DirectCall("getCorpus", fileId, o)

\* caller: client.listCorpora() (variants A and B)
listCorporaCall ==
  /\ pc = "idle"
  /\ variant # "L"
  /\ \E o \in listCorpora(variant, Latencies) : DirectCall("listCorpora", fileId, o)

\* caller: client.listFiles(corpusId)
listFilesCall ==
  /\ pc = "idle"
  /\ \E st \in StoreChoices :
       \E o \in listFiles(variant, corpusId, st, Latencies) : DirectCall("listFiles", fileId, o)

\* caller: client.uploadFile(corpusId, content, { displayName })
uploadFileCall ==
  /\ pc = "idle"
  /\ \E rq \in uploadFile(variant, corpusId, "notes.md", "f1", Latencies),
        unlinkOk \in UnlinkResults(variant) :
       LET ended == uploadFileEnds(variant, rq, unlinkOk, tmp)
       IN  CallEnds("uploadFile", fileId, ended.outcome) /\ tmp' = ended.tmp

(***************************************************************************)
(* FileSearchClient.listAllCorpora / listAllFiles                          *)
(***************************************************************************)
\* caller: client.listAllCorpora() ; let pageToken: string | undefined
listAllCorpora ==
  /\ pc = "idle"
  /\ variant # "L"
  /\ op' = "listAllCorpora"
  /\ pc' = "listPage"
  /\ pageToken' = NoToken
  /\ all' = << >>
  /\ UNCHANGED <<envVars, now, fetchCount, retval, thrown, batchVars, docVars, waitVars,
                 remoteVars, requests, pages, clearVars>>

\* caller: client.listAllFiles(corpusId) ; variant B: return []
listAllFiles ==
  /\ pc = "idle"
  /\ variant # "L"
  /\ op' = "listAllFiles"
  /\ pageToken' = NoToken
  /\ all' = << >>
  /\ IF variant = "A"
     THEN pc' = "listPage" /\ UNCHANGED retval
     ELSE pc' = "done" /\ retval' = ListResult(<< >>)
  /\ UNCHANGED <<envVars, now, fetchCount, thrown, batchVars, docVars, waitVars,
                 remoteVars, requests, pages, clearVars>>

\* a loop that also stops at a page without items
AfterPage_StopsAtEmptyPage(items, page) ==
  [all |-> items \o page.items, pageToken |-> page.nextPageToken,
   again |-> HasMore(page.nextPageToken) /\ page.items # << >>]

\* what the loop of listAll* does with the page it got
AfterPage(items, page) ==
  [all |-> items \o page.items, pageToken |-> page.nextPageToken,
   again |-> HasMore(page.nextPageToken)]

\* do { const { corpora, nextPageToken } = await this.listCorpora({ pageToken })
\*      allCorpora.push(...corpora) ; pageToken = nextPageToken } while (pageToken)
ListPage ==
  /\ pc = "listPage"
  /\ Len(requests) < MaxPages
  /\ \E o \in listPage(IF op = "listAllFiles" THEN "list files"
                       ELSE IF variant = "B" THEN "list File Search Stores"
                       ELSE "list corpora",
                       pageToken, {0}) :
       /\ fetchCount' = fetchCount + o.fetches
       /\ response' = o.response
       /\ requests' = Append(requests, pageToken)
       /\ IF o.throws
          THEN /\ thrown' = o.error
               /\ pc' = "done"
               /\ UNCHANGED <<retval, pageToken, all, pages>>
          ELSE LET after == AfterPage(all, o.value)
               IN  /\ pages' = Append(pages, o.value)
                   /\ all' = after.all
                   /\ pageToken' = after.pageToken
                   /\ IF after.again
                      THEN pc' = "listPage" /\ UNCHANGED retval
                      ELSE pc' = "done" /\ retval' = ListResult(after.all)
                   /\ UNCHANGED thrown
  /\ UNCHANGED <<envVars, now, op, batchVars, docVars, waitVars, fileState, fileMessage,
                 requestLog, clearVars>>

(***************************************************************************)
(* FileSearchUploader.clearCorpus                                          *)
(***************************************************************************)
\* for (const file of files): an array can be iterated, the object
\* { files, nextPageToken } cannot
Iterable(value) == value.kind = "list"

\* a count of the deletes attempted
CountAfter_CountsAttempts(count, ok) == count + 1

\* await this.client.deleteFile(...) ; deletedCount++ : the increment is
\* reached only when deleteFile did not throw
CountAfter(count, ok) == IF ok THEN count + 1 ELSE count

\* the loop test of clearCorpus at index k: the next file, or return deletedCount
ClearNext(k, list, count) ==
  /\ idx' = k
  /\ IF k <= Len(list.items)
     THEN pc' = "deleteFile" /\ UNCHANGED retval
     ELSE pc' = "done" /\ retval' = Count(count)

\* caller: uploader.clearCorpus()
clearCorpus ==
  /\ pc = "idle"
  /\ op' = "clearCorpus"
  /\ pc' = "listFiles"
  /\ store' \in StoreChoices
  /\ UNCHANGED <<envVars, now, fetchCount, retval, thrown, batchVars, docVars, waitVars,
                 remoteVars, pageToken, all, requests, pages, files, deletedCount,
                 deleteLog>>

\* const files = await this.client.listFiles(this.corpusId) ; let deletedCount = 0
\* for (const file of files)
ClearList ==
  /\ pc = "listFiles"
  /\ \E o \in listFiles(variant, corpusId, store, RequestLatencies) :
       /\ now' = now + o.latency
       /\ fetchCount' = fetchCount + o.fetches
       /\ response' = o.response
       /\ IF o.throws
          THEN /\ thrown' = o.error
               /\ pc' = "done"
               /\ UNCHANGED <<retval, idx, files>>
          ELSE /\ files' = o.value
               /\ IF Iterable(o.value)
                  THEN ClearNext(1, o.value, 0) /\ UNCHANGED thrown
                  ELSE /\ thrown' = NotIterableError
                       /\ pc' = "done"
                       /\ UNCHANGED <<retval, idx>>
  /\ deletedCount' = 0
  /\ UNCHANGED <<envVars, op, documents, onProgress, batchStart, results, progress, delays,
                 docVars, waitVars, fileState, fileMessage, requestLog, pageToken, all,
                 requests, pages, store, deleteLog>>

\* try { const fileId = this.extractFileId(file.name)
\*       await this.client.deleteFile(this.corpusId, fileId) ; deletedCount++ ... }
\* catch (error) { logger.error('Failed to delete file', ...) }
ClearDelete ==
  /\ pc = "deleteFile"
  /\ LET id == ExtractFileId(files.items[idx].name)
     IN  \E o \in deleteFile(variant, corpusId, id, fileState, fileMessage, RequestLatencies) :
           /\ now' = now + o.latency
           /\ fetchCount' = fetchCount + o.fetches
           /\ response' = o.response
           /\ fileId' = id
           /\ deleteLog' = Append(deleteLog, [fileId |-> id, ok |-> ~o.throws, at |-> now,
                                              endedAt |-> now', error |-> o.error])
           /\ deletedCount' = CountAfter(deletedCount, ~o.throws)
           /\ IF o.throws
              THEN ClearNext(idx + 1, files, deletedCount')
              ELSE pc' = "clearDelay" /\ UNCHANGED <<idx, retval>>
  /\ UNCHANGED <<envVars, op, thrown, documents, onProgress, batchStart, results, progress,
                 delays, docStart, fileName, result, attempts, waitVars, fileState,
                 fileMessage, requestLog, pageToken, all, requests, pages, store, files>>

\* await this.delay(500) // Rate limiting ; then the loop test
ClearDelay ==
  /\ pc = "clearDelay"
  /\ now' = AfterDelay(now, DelayMs)
  /\ delays' = delays + 1
  /\ ClearNext(idx + 1, files, deletedCount)
  /\ UNCHANGED <<envVars, fetchCount, op, thrown, documents, onProgress, batchStart, results,
                 progress, docVars, waitVars, remoteVars, pageToken, all, requests, pages,
                 clearVars>>

(***************************************************************************)
(* Specification                                                           *)
(***************************************************************************)
Next ==
  \/ uploadDocument
  \/ UploadFileStep
  \/ waitForFileProcessing
  \/ WaitEnter
  \/ Poll
  \/ Sleep
  \/ uploadDocuments
  \/ uploadDocumentsWithProgress
  \/ Push
  \/ Delay
  \/ getFileCall
  \/ deleteFileCall
  \/ createCorpusCall
  \/ getCorpusCall
  \/ listCorporaCall
  \/ listFilesCall
  \/ uploadFileCall
  \/ clearCorpus
  \/ ClearList
  \/ ClearDelete
  \/ ClearDelay
  \/ listAllCorpora
  \/ listAllFiles
  \/ ListPage

Spec == Init /\ [][Next]_vars

(***************************************************************************)
(* Properties                                                              *)
(***************************************************************************)
\* a batch operation has returned its BatchUploadResult
BatchReturned == op \in BatchOps /\ pc = "done" /\ retval # Nothing

\* the documents for which uploadFile and waitForFileProcessing both succeeded
Succeeded == { k \in 1..Len(attempts) : attempts[k].uploaded /\ attempts[k].processed }

\* C1: the BatchUploadResult returned by uploadDocuments and by
\* uploadDocumentsWithProgress satisfies successCount + failureCount =
\* totalDocuments = length of results = number of input documents.
C1_CountsAddUp ==
  BatchReturned =>
    /\ retval.successCount + retval.failureCount = retval.totalDocuments
    /\ retval.totalDocuments = Len(retval.results)
    /\ Len(retval.results) = Len(documents)

C1_Witness ==
  /\ BatchReturned
  /\ Len(documents) = 2
  /\ retval.successCount = 1
  /\ retval.failureCount = 1

\* C2: results[i] is the UploadResult produced by the upload attempt of
\* documents[i]: it carries the file name of documents[i] and the outcome of
\* the i-th attempt, which was the attempt made for documents[i].
C2_ResultsInInputOrder ==
  op \in BatchOps =>
    /\ Len(results) <= Len(attempts)
    /\ \A i \in 1..Len(results) :
         /\ attempts[i].doc = i
         /\ results[i].fileName = FileNameOf(documents[i], attempts[i].at)
         /\ results[i].success = (i \in Succeeded)
         /\ ~results[i].success => results[i].error = attempts[i].error.message
    /\ BatchReturned => retval.results = results

C2_Witness ==
  /\ BatchReturned
  /\ Len(retval.results) = 2
  /\ documents[1] # documents[2]
  /\ ~retval.results[1].success
  /\ retval.results[2].success
  /\ retval.results[2].fileName = "notes.md"

\* uploadDocument has just returned to its caller
DocumentReturned ==
  \/ op = "uploadDocument" /\ pc = "done"
  \/ op \in BatchOps /\ pc = "push"

\* C3: uploadDocument never throws to its caller: an error raised by
\* client.uploadFile or client.waitForFileProcessing makes it return an
\* UploadResult with success = false whose error is that error's message.
C3_UploadDocumentNeverThrows ==
  /\ op = "uploadDocument" => thrown = Nothing
  /\ op \in UploadOps /\ thrown # Nothing =>
       \A k \in 1..Len(attempts) : attempts[k].error # thrown
  /\ DocumentReturned /\ attempts[Len(attempts)].error # Nothing =>
       result = [success |-> FALSE, fileName |-> fileName,
                 error |-> attempts[Len(attempts)].error.message]
  /\ op = "uploadDocument" /\ pc = "done" => retval = result

C3_Witness ==
  /\ op = "uploadDocument"
  /\ pc = "done"
  /\ attempts[1].uploaded
  /\ attempts[1].error = TimeoutError(DefaultMaxWaitMs)
  /\ retval = [success |-> FALSE, fileName |-> "github-issue-7-0.md",
               error |-> "File processing timeout after 60000ms"]

\* C4: a failing document never aborts the batch: uploadDocuments attempts
\* every document, returns a BatchUploadResult instead of raising, and
\* successCount is the number of documents whose uploadFile and
\* waitForFileProcessing both succeeded.
C4_BatchNeverAborts ==
  op = "uploadDocuments" =>
    /\ thrown = Nothing
    /\ pc = "done" =>
         /\ retval # Nothing
         /\ Len(attempts) = Len(documents)
         /\ \A i \in 1..Len(attempts) : attempts[i].doc = i
         /\ retval.successCount = Cardinality(Succeeded)
         /\ retval.failureCount = Len(documents) - Cardinality(Succeeded)

C4_Witness ==
  /\ op = "uploadDocuments"
  /\ pc = "done"
  /\ Len(documents) = 2
  /\ retval.totalDocuments = 2
  /\ retval.successCount = 1
  /\ retval.failureCount = 1
  /\ retval.results[1].success
  /\ ~retval.results[2].success
  /\ retval.results[2].error = "Failed to upload file (500): internal error"

\* a direct call of waitForFileProcessing has ended
WaitEnded == op = "waitForFileProcessing" /\ pc = "done"

\* the state the last poll of the current wait saw ("none": no poll got a file)
ObservedState == IF observed = Nothing THEN "none" ELSE observed.state

Polling == pc \in {"getFile", "sleep"}

\* C5: under variant A, waitForFileProcessing returns or raises within
\* maxWaitMs plus one poll interval of its start.
C5_EndsWithinDeadline ==
  variant = "A" /\ WaitEnded => now - startTime <= maxWaitMs + PollInterval

\* C6: under variant A, when the remote file is reported as FAILED,
\* waitForFileProcessing raises the processing-failure error before maxWaitMs
\* elapses, without polling on until the timeout, and the error carries the
\* server's message, or a generic fallback when there is none.
C6_FailedRaisesBeforeDeadline ==
  variant = "A" /\ ObservedState = "FAILED" =>
    /\ ~Polling
    /\ op = "waitForFileProcessing" =>
         /\ pc = "done"
         /\ retval = Nothing
         /\ thrown.message =
              "File processing failed: "
                \o (IF observed.message # "" THEN observed.message ELSE "Unknown error")
         /\ now - startTime < maxWaitMs

\* C7: under variant A, waitForFileProcessing sleeps 2000 ms between
\* consecutive polls, returns exactly when a poll observes ACTIVE (returning
\* the observed file), never returns a file that is not ACTIVE, and polls no
\* more after observing ACTIVE or FAILED.
C7_PollsUntilTerminal ==
  variant = "A" =>
    /\ pc = "getFile" => sleptMs = (IF getFileCalls = 0 THEN 0 ELSE PollInterval)
    /\ ObservedState \in {"ACTIVE", "FAILED"} => ~Polling
    /\ WaitEnded =>
         /\ (retval # Nothing) = (ObservedState = "ACTIVE")
         /\ retval # Nothing => retval = observed /\ retval.state = "ACTIVE"
         /\ retval # Nothing => thrown = Nothing

C7_Witness ==
  /\ variant = "A"
  /\ WaitEnded
  /\ getFileCalls = 2
  /\ retval # Nothing
  /\ retval.state = "ACTIVE"
  /\ now - startTime >= PollInterval

\* C8: under variant B, getFile and deleteFile always raise the
\* unsupported-operation error and make no fetch call.
C8_UnsupportedWithoutFetch ==
  variant = "B" /\ op \in {"getFile", "deleteFile"} /\ pc = "done" =>
    /\ thrown = UnsupportedError
    /\ retval = Nothing
    /\ fetchCount = 0

C8_Witness ==
  /\ variant = "B"
  /\ op = "deleteFile"
  /\ pc = "done"
  /\ fileId = "f2"
  /\ thrown = UnsupportedError

\* C9: under variant B, waitForFileProcessing makes no getFile call and no
\* sleep and returns a file in state ACTIVE at once, for every fileId and
\* maxWaitMs; so uploadDocument returns success = true exactly when uploadFile
\* returned, whatever became of the file on the server.
C9_VariantBWaitIsSynthetic ==
  variant = "B" =>
    /\ ~Polling
    /\ getFileCalls = 0
    /\ WaitEnded =>
         /\ thrown = Nothing
         /\ retval = RemoteFile(<<fileId>>, "ACTIVE", "")
         /\ fetchCount = 0
         /\ now = 0
    /\ op = "uploadDocument" /\ pc = "done" =>
         /\ retval.success = attempts[Len(attempts)].uploaded
         /\ fetchCount = Len(attempts)

C9_Witness ==
  /\ variant = "B"
  /\ op = "uploadDocument"
  /\ pc = "done"
  /\ retval.success
  /\ fileState = "FAILED"

RECURSIVE Concat(_)
Concat(ps) == IF ps = << >> THEN << >> ELSE ps[1].items \o Concat(Tail(ps))

\* a listAll* operation that pages (variant B's listAllFiles lists nothing)
Listing == op = "listAllCorpora" \/ (op = "listAllFiles" /\ variant = "A")

\* C10: listAllCorpora and listAllFiles return the concatenation of the
\* items of every page in the order the pages were returned, request the
\* first page with no token and each later page with the nextPageToken of the
\* previous response, and stop exactly after the first response whose
\* nextPageToken is absent.
C10_ListAllFollowsTokens ==
  Listing =>
    /\ \A k \in 1..Len(requests) :
         requests[k] = (IF k = 1 THEN NoToken ELSE pages[k - 1].nextPageToken)
    /\ \A k \in 1..(Len(pages) - 1) : pages[k].nextPageToken # NoToken
    /\ pc = "listPage" => Len(requests) = Len(pages)
    /\ pc = "listPage" /\ Len(pages) > 0 => pages[Len(pages)].nextPageToken # NoToken
    /\ pc = "done" /\ thrown = Nothing =>
         /\ Len(pages) > 0
         /\ Len(requests) = Len(pages)
         /\ fetchCount = Len(pages)
         /\ pages[Len(pages)].nextPageToken = NoToken
         /\ retval = ListResult(Concat(pages))

C10_Witness ==
  /\ op = "listAllFiles"
  /\ pc = "done"
  /\ Len(pages) = 3
  /\ requests = <<NoToken, "t2", "t1">>
  /\ retval = ListResult(<<"y", "z", "x", "y", "z">>)

\* the client operations that issue an HTTP request
HttpOps ==
  {"createCorpus", "getCorpus", "listCorpora", "listFiles", "uploadFile", "getFile",
   "deleteFile"}

\* what the error messages say has failed
FailedActions ==
  {"create corpus", "get corpus", "list corpora", "list files", "upload file", "get file",
   "delete file", "create File Search Store", "get File Search Store",
   "list File Search Stores"}

\* the error e names the status and the body text of the response r
CarriesStatusAndBody(e, r) ==
  \E what \in FailedActions :
    e.message = "Failed to " \o what \o " (" \o ToString(r.status) \o "): " \o r.body

\* the last fetch got a response that is not 2xx
NonOkResponse == response # NoResponse /\ response.status \notin 200..299

\* C11: a Store Client operation whose HTTP request gets a non-2xx response
\* returns nothing and raises an error that carries both the HTTP status and
\* the raw body text of the response.
C11_ErrorCarriesStatusAndBody ==
  op \in HttpOps /\ pc = "done" /\ NonOkResponse =>
    /\ retval = Nothing
    /\ thrown # Nothing
    /\ CarriesStatusAndBody(thrown, response)

\* the deleteFile calls of clearCorpus that succeeded
SucceededDeletes == { k \in 1..Len(deleteLog) : deleteLog[k].ok }

\* the ids of the files deleted from the store
Deleted == { deleteLog[k].fileId : k \in SucceededDeletes }

\* the ids of the files the store held when clearCorpus was called
StoreFiles == UNION { { store[p][k] : k \in 1..Len(store[p]) } : p \in 1..Len(store) }

ClearReturned == op = "clearCorpus" /\ pc = "done" /\ retval # Nothing

\* C12: clearCorpus returns the number of files whose deleteFile succeeded;
\* a failed deleteFile does not end the loop, every later file of the list
\* is still attempted; and no error of a deleteFile call is raised by
\* clearCorpus.
C12_CountsSuccessfulDeletes ==
  op = "clearCorpus" =>
    /\ \A k \in 1..Len(deleteLog) : ~deleteLog[k].ok => thrown # deleteLog[k].error
    /\ pc \in {"deleteFile", "clearDelay", "done"} =>
         deletedCount = Cardinality(SucceededDeletes)
    /\ pc = "done" /\ Len(deleteLog) > 0 => ClearReturned
    /\ ClearReturned =>
         /\ retval = Count(Cardinality(SucceededDeletes))
         /\ Len(deleteLog) = Len(files.items)
         /\ \A k \in 1..Len(deleteLog) :
              deleteLog[k].fileId = files.items[k].name[Len(files.items[k].name)]

C12_Witness ==
  /\ ClearReturned
  /\ Len(files.items) = 3
  /\ deleteLog[1].ok
  /\ ~deleteLog[2].ok
  /\ deleteLog[3].ok
  /\ retval = Count(2)
  /\ thrown = Nothing

\* C13: after clearCorpus returns with every deleteFile succeeding, every
\* file of the store, on whichever listing page, has been deleted and the
\* returned count is the number of files the store held.
C13_ClearsWholeStore ==
  ClearReturned /\ SucceededDeletes = 1..Len(deleteLog) =>
    /\ Deleted = StoreFiles
    /\ retval = Count(Cardinality(StoreFiles))

IsUpload(entry) == entry.kind = "uploadFile"

\* the number of calls that the entries of log stand for
RECURSIVE Times(_)
Times(log) == IF log = << >> THEN 0 ELSE log[1].times + Times(Tail(log))

\* the client.uploadFile calls made so far, in order
UploadCalls == SelectSeq(requestLog, IsUpload)

\* the time at which the k-th uploadDocument call was entered
EnteredAt(k) == IF k <= Len(attempts) THEN attempts[k].at ELSE docStart

\* the name the claim gives to a document whose upload starts at time t
ClaimedName(document, t) ==
  IF document.fileName # "" THEN document.fileName
  ELSE document.source \o "-" \o document.type \o "-" \o document.id \o "-"
         \o ToString(t) \o ".md"

\* C14: the displayName passed to client.uploadFile and the fileName of the
\* UploadResult, successful or failed, are the document's fileName when it has
\* one and otherwise source-type-id-timestamp.md, built from the document's
\* metadata and the time at which its upload was started.
C14_FileNameIsOverrideOrGenerated ==
  op \in UploadOps =>
    LET calls == UploadCalls
    IN  /\ \A k \in 1..Len(calls) :
             LET call == calls[k]
             IN  /\ call.call = k
                 /\ call.times = 1
                 /\ call.arg = ClaimedName(call.document, EnteredAt(k))
                 /\ op \in BatchOps => call.document = documents[k]
        /\ DocumentReturned =>
             /\ Len(calls) = Len(attempts)
             /\ result.fileName = calls[Len(attempts)].arg
        /\ \A i \in 1..Len(results) : results[i].fileName = calls[i].arg

C14_Witness ==
  /\ BatchReturned
  /\ Len(documents) = 2
  /\ documents[1].fileName = ""
  /\ documents[2].fileName = "notes.md"
  /\ UploadCalls[1].arg = "github-issue-7-0.md"
  /\ UploadCalls[2].arg = "notes.md"
  /\ retval.results[1].success
  /\ retval.results[1].fileName = "github-issue-7-0.md"
  /\ ~retval.results[2].success
  /\ retval.results[2].fileName = "notes.md"

\* C15: two uploadDocument calls for documents with the same source, type
\* and id and no fileName override never use the same file name.
C15_GeneratedNamesUnique ==
  \A k, l \in 1..Len(UploadCalls) :
    /\ k < l
    /\ UploadCalls[k].document = UploadCalls[l].document
    /\ UploadCalls[k].document.fileName = ""
    => UploadCalls[k].arg # UploadCalls[l].arg

\* uploadDocument is running for a document of the batch
Uploading == pc \in {"uploadFile", "wait", "getFile", "sleep"}

\* C16: uploadDocumentsWithProgress calls onProgress once for every document,
\* in input order, with current = 1, 2, ..., n, total = n and the UploadResult
\* of that document; the call for a document is made when its upload attempt
\* has ended, before the delay that follows it and before the upload of the
\* next document starts.
C16_ProgressOncePerDocument ==
  op = "uploadDocumentsWithProgress" /\ onProgress =>
    /\ Len(progress) = Len(results)
    /\ \A k \in 1..Len(progress) :
         /\ progress[k].args = [current |-> k, total |-> Len(documents), result |-> results[k]]
         /\ progress[k].attempts = k
         /\ progress[k].at = attempts[k].endedAt
         /\ progress[k].delays = k - 1
         /\ k < Len(attempts) \/ (k < idx /\ Uploading) =>
              EnteredAt(k + 1) >= progress[k].at + DelayMs
    /\ Uploading => Len(progress) = idx - 1
    /\ pc = "delay" => Len(progress) = idx /\ delays = idx - 1
    /\ BatchReturned => Len(progress) = Len(documents)

C16_Witness ==
  /\ op = "uploadDocumentsWithProgress"
  /\ BatchReturned
  /\ Len(progress) = 2
  /\ progress[1].args.result.success
  /\ progress[2].args = [current |-> 2, total |-> 2, result |-> retval.results[2]]
  /\ ~progress[2].args.result.success
  /\ progress[2].at > progress[1].at

\* r is a well-formed UploadResult of the k-th uploadDocument call
WellFormed(r, k) ==
  /\ r.fileName # ""
  /\ r.success =>
       LET call == UploadCalls[k]
       IN  /\ DOMAIN r = {"success", "fileName", "fileId"}
           /\ call.ok
           /\ r.fileId = call.name[Len(call.name)]
           /\ r.fileId # ""
  /\ ~r.success =>
       /\ DOMAIN r = {"success", "fileName", "error"}
       /\ r.error = attempts[k].error.message
       /\ r.error # ""

\* C17: every UploadResult has a fileName; a successful one has a fileId,
\* the last path segment of the name of the file uploadFile returned, and no
\* error; a failed one has an error and no fileId.
C17_UploadResultWellFormed ==
  op \in UploadOps =>
    /\ DocumentReturned => WellFormed(result, Len(attempts))
    /\ \A i \in 1..Len(results) : WellFormed(results[i], i)
    /\ op = "uploadDocument" /\ pc = "done" => retval = result

C17_Witness ==
  /\ BatchReturned
  /\ variant = "A"
  /\ retval.results =
       << [success |-> TRUE, fileName |-> "notes.md", fileId |-> "f1"],
          [success |-> FALSE, fileName |-> "github-issue-7-500.md",
           error |-> "File processing failed: quota exceeded"] >>

\* the requests made on the client for the k-th uploadDocument call
RequestsOf(k) == SelectSeq(requestLog, LAMBDA entry : entry.call = k)

\* C18: within a batch client.uploadFile is called exactly once for every
\* document, whether it succeeds or fails; a failed uploadFile or getFile
\* request is the last request made for its document and its error is that
\* document's failed result; and the batch goes on with the next document.
C18_NoRetries ==
  op \in BatchOps =>
    /\ \A k \in 1..Len(documents) :
         LET rq == RequestsOf(k)
         IN  /\ Times(SelectSeq(rq, IsUpload)) = (IF k < idx \/ k <= Len(attempts) THEN 1
                                                ELSE IF k > idx THEN 0
                                                ELSE IF pc = "uploadFile" THEN 0 ELSE 1)
             /\ rq # << >> => IsUpload(rq[1])
             /\ \A j \in 1..(Len(rq) - 1) : rq[j].ok
             /\ rq # << >> /\ ~rq[Len(rq)].ok =>
                  /\ rq[Len(rq)].times = 1
                  /\ k <= Len(attempts)
                  /\ attempts[k].error = rq[Len(rq)].error
                  /\ k <= Len(results) =>
                       results[k] = [success |-> FALSE, fileName |-> rq[1].arg,
                                     error |-> rq[Len(rq)].error.message]
    /\ fetchCount = Times(requestLog)
    /\ BatchReturned => Times(UploadCalls) = Len(documents)

C18_Witness ==
  /\ BatchReturned
  /\ Len(documents) = 2
  /\ Len(RequestsOf(1)) = 3
  /\ Times(RequestsOf(1)) = 3
  /\ ~RequestsOf(1)[3].ok
  /\ RequestsOf(1)[3].kind = "getFile"
  /\ retval.results[1].error = "fetch failed"
  /\ Times(RequestsOf(2)) = 2
  /\ retval.results[2].success

\* C19: an uploader constructed without a store id is constructed all the
\* same, with a warning; uploadDocument then still sends the uploadFile
\* request, with the empty store id, and returns a failed UploadResult
\* instead of raising.
C19_MissingStoreIdFailsAtRequest ==
  corpusId = "" =>
    /\ warned
    /\ pc = "idle" => thrown = Nothing
    /\ op \in UploadOps =>
         /\ \A k \in 1..Len(UploadCalls) :
              /\ UploadCalls[k].storeId = ""
              /\ UploadCalls[k].fetches = 1
              /\ ~UploadCalls[k].ok
         /\ fetchCount = Times(UploadCalls)
         /\ DocumentReturned =>
              /\ Len(UploadCalls) = Len(attempts)
              /\ result = [success |-> FALSE, fileName |-> fileName,
                            error |-> UploadCalls[Len(attempts)].error.message]
         /\ op = "uploadDocument" => thrown = Nothing

C19_Witness ==
  /\ corpusId = ""
  /\ warned
  /\ op = "uploadDocument"
  /\ pc = "done"
  /\ fetchCount = 1
  /\ UploadCalls[1].storeId = ""
  /\ retval = [success |-> FALSE, fileName |-> "notes.md",
                error |-> "Failed to upload file (500): internal error"]

\* C20: a batch runs strictly in sequence: requests are made for one
\* document at a time, in input order, and the upload of a document starts
\* only when uploadDocument of the previous one (uploadFile and the whole
\* poll loop) has returned and the delay after it has elapsed.
C20_StrictlySequential ==
  op \in BatchOps =>
    /\ \A j \in 1..(Len(requestLog) - 1) : requestLog[j].call <= requestLog[j + 1].call
    /\ \A j \in 1..Len(requestLog) :
         requestLog[j].call <= (IF Uploading THEN idx ELSE Len(attempts))
    /\ \A k \in 2..Len(attempts) :
         attempts[k].at >= attempts[k - 1].endedAt + DelayMs
    /\ \A k \in 1..Len(attempts) :
         /\ attempts[k].doc = k
         /\ attempts[k].at <= attempts[k].endedAt
    /\ Uploading =>
         /\ Len(attempts) = idx - 1
         /\ delays = idx - 1
         /\ idx > 1 => docStart >= attempts[idx - 1].endedAt + DelayMs

C20_Witness ==
  /\ BatchReturned
  /\ Len(attempts) = 2
  /\ Times(RequestsOf(1)) = 3
  /\ attempts[1].endedAt = attempts[1].at + PollInterval
  /\ attempts[2].at = attempts[1].endedAt + DelayMs
  /\ Times(RequestsOf(2)) >= 2

C22_DelayAfterEveryDelete ==
  op = "clearCorpus" =>
    /\ \A k \in 2..Len(deleteLog) : deleteLog[k].at >= deleteLog[k - 1].endedAt + DelayMs
    /\ ClearReturned => delays = Len(deleteLog)

\* the pages listAllCorpora has received all carry a nextPageToken
AllWithToken == \A k \in 1..Len(pages) : pages[k].nextPageToken # NoToken

\* C23: listAllCorpora returns if and only if the service returns a page
\* without nextPageToken; there is no page-count ceiling: as long as every
\* page received carries a token (and no request has failed) it has not
\* returned, whatever the number of pages, and its next list request, with
\* the token of the last page, is pending.
C23_ReturnsOnlyWithoutToken ==
  op = "listAllCorpora" =>
    /\ (pc = "done" /\ thrown = Nothing) <=> (pages # << >> /\ ~AllWithToken)
    /\ AllWithToken /\ thrown = Nothing =>
         /\ pc = "listPage"
         /\ retval = Nothing
         /\ Len(requests) = Len(pages)
         /\ pageToken = (IF pages = << >> THEN NoToken ELSE pages[Len(pages)].nextPageToken)
    /\ ~AllWithToken =>
         /\ pages[Len(pages)].nextPageToken = NoToken
         /\ Len(requests) = Len(pages)
         /\ retval # Nothing

C23_Witness ==
  /\ op = "listAllCorpora"
  /\ Len(pages) = MaxPages
  /\ \A k \in 1..Len(pages) : pages[k].nextPageToken = "t1"
  /\ requests = [k \in 1..MaxPages |-> IF k = 1 THEN NoToken ELSE "t1"]
  /\ pc = "listPage"
  /\ pageToken = "t1"
  /\ retval = Nothing
  /\ thrown = Nothing

\* the time at which the loop of uploadDocuments starts the k-th upload:
\* the start of the batch, then 500 ms after the previous attempt ended
StartOf(k) == IF k = 1 THEN batchStart ELSE attempts[k - 1].endedAt + DelayMs

\* the UploadResult uploadDocuments collects for the k-th document, given what
\* the client did for it
ExpectedResult(k) ==
  LET name == FileNameOf(documents[k], StartOf(k))
  IN  IF attempts[k].uploaded /\ attempts[k].processed
      THEN SuccessResult(name, ExtractFileId(UploadCalls[k].name))
      ELSE FailureResult(name, attempts[k].error)

\* C24: uploadDocumentsWithProgress sequences a batch as uploadDocuments
\* does. With no callback, or a callback that has not thrown, the client
\* calls, the delays and the result of either operation are the same function
\* of the documents and of what the client answered: the k-th upload starts
\* at StartOf(k) with uploadFile for documents[k], only getFile calls for the
\* returned file follow it, one delay is made per completed attempt, and the
\* BatchUploadResult is built from the expected results.
C24_SameSequencing ==
  op \in BatchOps /\ thrown = Nothing =>
    LET calls == UploadCalls
    IN  /\ \A k \in 1..Len(attempts) :
             LET rq == RequestsOf(k)
             IN  /\ attempts[k].at = StartOf(k)
                 /\ rq[1] = calls[k]
                 /\ calls[k].arg = FileNameOf(documents[k], StartOf(k))
                 /\ calls[k].document = documents[k]
                 /\ calls[k].storeId = corpusId
                 /\ \A j \in 2..Len(rq) :
                      rq[j].kind = "getFile" /\ rq[j].arg = ExtractFileId(calls[k].name)
                 /\ Len(rq) > 1 => calls[k].ok
        /\ results = [k \in 1..Len(results) |-> ExpectedResult(k)]
        /\ delays = Len(attempts) - (IF pc \in {"push", "delay"} THEN 1 ELSE 0)
        /\ BatchReturned =>
             /\ Len(results) = Len(documents)
             /\ retval = BatchUploadResult(
                           documents, results,
                           IF documents = << >> THEN 0
                           ELSE attempts[Len(attempts)].endedAt + DelayMs - batchStart)

C24_Witness ==
  /\ op = "uploadDocumentsWithProgress"
  /\ onProgress
  /\ BatchReturned
  /\ Len(progress) = 2
  /\ delays = 2
  /\ Times(requestLog) = 3
  /\ retval = BatchUploadResult(
                documents,
                << [success |-> FALSE, fileName |-> "notes.md",
                    error |-> "Failed to upload file (500): internal error"],
                   [success |-> TRUE, fileName |-> "github-issue-7-500.md", fileId |-> "f2"] >>,
                1000)

\* the calls of onProgress that threw
ThrowingCallbacks == { k \in 1..Len(progress) : progress[k].threw }

\* C25: an exception thrown by onProgress is not caught by
\* uploadDocumentsWithProgress. Once a callback has thrown, the operation has
\* ended with that exception and without a BatchUploadResult, the callback
\* that threw is the last one called, and nothing has been done for the
\* documents after it: no upload attempt, no request, no delay.
C25_CallbackErrorPropagates ==
  ThrowingCallbacks # {} =>
    LET k == Len(progress)
    IN  /\ ThrowingCallbacks = {k}
        /\ op = "uploadDocumentsWithProgress"
        /\ pc = "done"
        /\ thrown = Err("onProgress failed")
        /\ retval = Nothing
        /\ idx = k
        /\ Len(results) = k
        /\ Len(attempts) = k
        /\ Len(UploadCalls) = k
        /\ \A j \in 1..Len(requestLog) : requestLog[j].call <= k
        /\ delays = k - 1
        /\ now = attempts[k].endedAt

C25_Witness ==
  /\ op = "uploadDocumentsWithProgress"
  /\ Len(documents) = 2
  /\ Len(progress) = 1
  /\ progress[1].threw
  /\ progress[1].args.result.success
  /\ thrown = Err("onProgress failed")
  /\ retval = Nothing
  /\ pc = "done"
  /\ Len(attempts) = 1
  /\ delays = 0

\* waitForFileProcessing is running, called directly or by uploadDocument
Waiting == pc \in {"wait", "getFile", "sleep"}

\* C26: the poll loop of waitForFileProcessing only observes. Every step
\* taken while the wait is running either issues no request and leaves the
\* remote file to the service, or issues exactly one getFile request, one
\* fetch, for the given store and file; in both cases the file's state moves
\* only along the service's own state machine, and the store's files are
\* never touched.
C26_WaitOnlyObserves ==
  [][Waiting =>
       /\ \/ /\ requestLog' = requestLog
             /\ fetchCount' = fetchCount
             /\ fileState' \in Successors(fileState)
          \/ /\ Times(requestLog') = Times(requestLog) + 1
             /\ fetchCount' = fetchCount + 1
             /\ LET sent == requestLog'[Len(requestLog')]
                IN  /\ sent.kind = "getFile"
                    /\ sent.storeId = corpusId
                    /\ sent.arg = fileId
                    /\ sent.document = Nothing
             /\ fileState' \in Successors(fileState)
       /\ \A k \in 1..Len(requestLog) :
            requestLog'[k] = requestLog[k] \/ k = Len(requestLog)
       /\ UNCHANGED <<corpusId, fileId, store, files, deletedCount, deleteLog>>]_vars

C26_Witness ==
  /\ op = "waitForFileProcessing"
  /\ pc = "done"
  /\ retval # Nothing
  /\ retval.state = "ACTIVE"
  /\ getFileCalls = 2
  /\ fetchCount = 2
  /\ Len(requestLog) = 1
  /\ requestLog[1].kind = "getFile"
  /\ requestLog[1].storeId = corpusId
  /\ requestLog[1].arg = fileId
  /\ requestLog[1].times = 2
  /\ sleptMs = 0
  /\ now = PollInterval

\* C27: for every non-empty batch the duration of the BatchUploadResult is
\* greater than 0: it is the time from the start of the batch to the end of
\* the last delay, at least 500 ms for each document.
C27_DurationPositive ==
  BatchReturned /\ Len(documents) > 0 =>
    /\ retval.duration > 0
    /\ retval.duration = now - batchStart
    /\ retval.duration >= DelayMs * Len(documents)
    /\ now = attempts[Len(attempts)].endedAt + DelayMs

C27_Witness ==
  /\ BatchReturned
  /\ op = "uploadDocuments"
  /\ Len(documents) = 1
  /\ retval.totalDocuments = 1
  /\ retval.failureCount = 1
  /\ retval.duration = DelayMs

\* a direct call of waitForFileProcessing has raised the timeout error
TimedOut == WaitEnded /\ thrown = TimeoutError(maxWaitMs)

\* the states waitForFileProcessing treats as still processing
StillProcessing == {"PROCESSING", "STATE_UNSPECIFIED"}

\* C28: under variant A, waitForFileProcessing tests the elapsed time only
\* before a poll and polls no more after its last sleep. While the loop
\* runs, every poll made so far saw a state treated as still processing; the
\* timeout is raised only at a loop test that found maxWaitMs elapsed, after
\* polls that all began within maxWaitMs and saw such a state, the last one
\* followed by one sleep and by nothing else; a call that ends after a sleep
\* at whose end maxWaitMs has elapsed ends with the timeout, whatever the
\* remote file has become during that sleep.
C28_NoPollAfterLastSleep ==
  variant = "A" /\ op = "waitForFileProcessing" =>
    /\ Polling /\ getFileCalls > 0 => ObservedState \in StillProcessing
    /\ Polling => polledAt < maxWaitMs
    /\ TimedOut =>
         /\ now - startTime >= maxWaitMs
         /\ retval = Nothing
         /\ getFileCalls = 0 => now = startTime
         /\ getFileCalls > 0 =>
              /\ ObservedState \in StillProcessing
              /\ polledAt < maxWaitMs
              /\ sleptMs = PollInterval
              /\ now - startTime = observedAt + PollInterval
              /\ Times(requestLog) = getFileCalls
    /\ WaitEnded /\ sleptMs = PollInterval => TimedOut
    /\ WaitEnded /\ retval # Nothing =>
         /\ retval = observed
         /\ retval.state = "ACTIVE"
         /\ polledAt < maxWaitMs
         /\ sleptMs = 0

C28_Witness ==
  /\ variant = "A"
  /\ TimedOut
  /\ maxWaitMs = 2500
  /\ getFileCalls = 2
  /\ observed # Nothing
  /\ observed.state = "PROCESSING"
  /\ fileState = "ACTIVE"
  /\ sleptMs = PollInterval
  /\ polledAt = PollInterval
  /\ now = 2 * PollInterval

\* C29: under variant A, a waitForFileProcessing call with maxWaitMs <= 0
\* issues no getFile request and raises the timeout error at once, whatever
\* the state of the file; with maxWaitMs > 0 the first loop test succeeds, so
\* a poll is made before any timeout.
C29_NoPollWithoutWaitTime ==
  variant = "A" /\ op = "waitForFileProcessing" /\ pc # "wait" =>
    /\ maxWaitMs <= 0 =>
         /\ TimedOut
         /\ getFileCalls = 0
         /\ requestLog = << >>
         /\ fetchCount = 0
         /\ now = startTime
    /\ maxWaitMs > 0 =>
         /\ getFileCalls = 0 => pc = "getFile"
         /\ TimedOut => getFileCalls >= 1 /\ Times(requestLog) >= 1

C29_Witness ==
  /\ variant = "A"
  /\ TimedOut
  /\ maxWaitMs = 0
  /\ fileState = "ACTIVE"
  /\ getFileCalls = 0
  /\ requestLog = << >>
  /\ thrown = Err("File processing timeout after 0ms")

\* the uploadFile calls made on the client so far
UploadFileCalls ==
  IF op = "uploadFile" /\ pc = "done" THEN 1
  ELSE IF op \in UploadOps THEN Times(UploadCalls)
  ELSE 0

\* C30: under variant B, every uploadFile call that wrote its temporary file
\* has called unlinkSync on it by the time it returns or raises, whatever the
\* outcome of the upload request; a file is still present only where
\* unlinkSync itself failed, which was logged as a warning and nothing else:
\* the call ends with the request's own result or error.
C30_TempFileRemoved ==
  variant = "B" =>
    /\ tmp.writes = UploadFileCalls
    /\ tmp.unlinks = tmp.writes
    /\ tmp.present = tmp.warnings
    /\ tmp.present <= tmp.unlinks
    /\ op = "uploadFile" /\ pc = "done" =>
         \E o \in uploadFile_B(corpusId, "notes.md", "f1", Latencies) :
           /\ retval = o.value
           /\ thrown = o.error
           /\ response = o.response
           /\ fetchCount = o.fetches
    /\ \A k \in 1..Len(attempts) :
         ~attempts[k].uploaded =>
           attempts[k].error = HttpError("upload file", 500, "internal error")

C30_Witness ==
  /\ variant = "B"
  /\ BatchReturned
  /\ Len(documents) = 2
  /\ tmp = [writes |-> 2, unlinks |-> 2, present |-> 1, warnings |-> 1]
  /\ ~retval.results[1].success
  /\ retval.results[1].error = "Failed to upload file (500): internal error"
  /\ retval.results[2].success

====
